---------------------------- MODULE Spec2Model ----------------------------
(***************************************************************************)
(* A model of the lingebra crate: the Matrix type of src/src/matrix.rs     *)
(* (constructors, accessors, operators, the reference-counted backing      *)
(* grid) and the vector functions of src/src/lib.rs.                       *)
(*                                                                         *)
(* An f64 is modelled as an extended rational <<n, d>>: d > 0 is the       *)
(* finite value n/d in lowest terms, <<1, 0>> is +inf, <<-1, 0>> is -inf   *)
(* and <<0, 0>> is NaN.  Rounding and the sign of zero are abstracted.     *)
(***************************************************************************)
EXTENDS Integers, Sequences, FiniteSets, TLC

\* Largest height, width and vector length of an input of a single call.
MaxDim == 2
\* Largest height and width asked of a constructor in a run of several calls.
PoolDim == 1
\* Number of Matrix variables the calling program holds.
MaxPool == 3
\* Number of library calls of one run.
MaxOps == 3
\* Largest number of vectors handed to all_orthogonal and change_base.
MaxVecs == 3

---------------------------------------------------------------------------
\* f64 arithmetic

Zero == <<0, 1>>
One == <<1, 1>>
Two == <<2, 1>>
NaN == <<0, 0>>

Abs(n) == IF n < 0 THEN -n ELSE n
Sign(n) == IF n < 0 THEN -1 ELSE IF n > 0 THEN 1 ELSE 0

RECURSIVE GCD(_, _)
GCD(a, b) == IF b = 0 THEN a ELSE GCD(b, a % b)

\* The value n/d, d possibly zero or negative, in its one representation.
Norm(n, d) ==
  IF d = 0 THEN <<Sign(n), 0>>
  ELSE LET g == GCD(Abs(n), Abs(d))
           s == IF d < 0 THEN -1 ELSE 1
       IN <<(s * n) \div g, (s * d) \div g>>

FNeg(a) == <<-a[1], a[2]>>

FAdd(a, b) ==
  IF a = NaN \/ b = NaN THEN NaN
  ELSE IF a[2] = 0 /\ b[2] = 0 THEN (IF a = b THEN a ELSE NaN)
  ELSE IF a[2] = 0 THEN a
  ELSE IF b[2] = 0 THEN b
  ELSE Norm(a[1] * b[2] + b[1] * a[2], a[2] * b[2])

FSub(a, b) == FAdd(a, FNeg(b))

FMul(a, b) == Norm(a[1] * b[1], a[2] * b[2])

Recip(b) == IF b[1] < 0 THEN <<-b[2], -b[1]>> ELSE <<b[2], b[1]>>

FDiv(a, b) == FMul(a, Recip(b))

\* f64's ==: NaN equals nothing, itself included.
FEq(a, b) == a # NaN /\ b # NaN /\ a = b

\* Iterator::sum over a sequence of f64.
RECURSIVE FSum(_)
FSum(s) == IF s = <<>> THEN Zero ELSE FAdd(FSum(SubSeq(s, 1, Len(s) - 1)), s[Len(s)])

Min(a, b) == IF a < b THEN a ELSE b

---------------------------------------------------------------------------
\* Inputs of the calls

Vals == {Zero, One, FNeg(One)}
Scalars == {Zero, Two}
Vecs == UNION {[1..n -> Vals] : n \in 0..MaxDim}
RowLists == UNION {[1..n -> Vecs] : n \in 0..MaxDim}
Sizes == 0..MaxDim
Slots == 1..MaxPool

\* Vectors for the vector functions.
BaseVals == {Zero, One}
BaseVecs == UNION {[1..n -> BaseVals] : n \in 0..MaxDim}
VecLists == UNION {[1..n -> BaseVecs] : n \in 0..MaxVecs}
Bases == UNION {[1..n -> BaseVecs] : n \in 0..MaxDim}

\* The same, for a run of several calls.
PoolVals == {One}
PoolVecs == UNION {[1..n -> PoolVals] : n \in 0..PoolDim}
PoolRowLists == UNION {[1..n -> PoolVecs] : n \in 0..PoolDim}
PoolSizes == 0..PoolDim

---------------------------------------------------------------------------
\* Matrix: the pure part of each function of src/src/matrix.rs

\* new with `vec.len() < w_size` for its test: a longer row is let through.
new_ok_shorter_only(matrix) ==
  /\ Len(matrix) > 0
  /\ \A i \in 1..Len(matrix) : Len(matrix[i]) >= Len(matrix[1])

\* Matrix::new panics on matrix[0] of an empty list and on a ragged list.
new_ok(matrix) ==
  /\ Len(matrix) > 0
  /\ \A i \in 1..Len(matrix) : Len(matrix[i]) = Len(matrix[1])

new_dim(matrix) == <<Len(matrix), Len(matrix[1])>>

new_grid(matrix) == matrix

row_vector_grid(vector) == <<vector>>

row_vector_dim(vector) == <<1, Len(vector)>>

column_vector_grid(vector) == [i \in 1..Len(vector) |-> <<vector[i]>>]

\* column_vector with the dimensions of row_vector.
column_vector_dim_swapped(vector) == <<1, Len(vector)>>

column_vector_dim(vector) == <<Len(vector), 1>>

zeroes_grid(height, width) == [x \in 1..height |-> [y \in 1..width |-> Zero]]

zeroes_dim(height, width) == <<height, width>>

ones_grid(height, width) == [x \in 1..height |-> [y \in 1..width |-> One]]

ones_dim(height, width) == <<height, width>>

identity_grid(size) ==
  [x \in 1..size |-> [y \in 1..size |-> IF x = y THEN One ELSE Zero]]

identity_dim(size) == <<size, size>>


\* Every element the operators read at position (x, y), x < dim.0 and
\* y < dim.1, exists: an index past the end of a Vec panics.
covers(self, dim) ==
  /\ Len(self.grid) >= dim[1]
  /\ \A x \in 1..dim[1] : Len(self.grid[x]) >= dim[2]

row_ok(self, x) == x < Len(self.grid)

row(self, x) == self.grid[x + 1]

\* r[x] is evaluated once per stored row: with no row nothing is indexed.
col_ok(self, x) == \A r \in 1..Len(self.grid) : x < Len(self.grid[r])

col(self, x) == [r \in 1..Len(self.grid) |-> self.grid[r][x + 1]]

transpose_rows(self) == [i \in 1..self.dim[1] |-> col(self, i - 1)]

transpose_ok(self) ==
  /\ self.dim[1] = self.dim[2]
  /\ \A i \in 0..(self.dim[1] - 1) : col_ok(self, i)
  /\ new_ok(transpose_rows(self))

index_ok(self, line) == line < Len(self.grid)

index(self, line) == self.grid[line + 1]

\* Vec<f64> == Vec<f64>: equal lengths and equal elements, by f64's ==.
vec_eq(u, v) == Len(u) = Len(v) /\ \A i \in 1..Len(u) : FEq(u[i], v[i])

\* PartialEq for Matrix compares the grids; dim is not read.
eq(self, other) ==
  /\ Len(self.grid) = Len(other.grid)
  /\ \A i \in 1..Len(self.grid) : vec_eq(self.grid[i], other.grid[i])

add_rows(self, other) ==
  [x \in 1..self.dim[1] |->
     [y \in 1..self.dim[2] |-> FAdd(self.grid[x][y], other.grid[x][y])]]

add_ok(self, other) ==
  /\ self.dim = other.dim
  /\ covers(self, self.dim) /\ covers(other, self.dim)
  /\ new_ok(add_rows(self, other))

sub_rows(self, other) ==
  [x \in 1..self.dim[1] |->
     [y \in 1..self.dim[2] |-> FSub(self.grid[x][y], other.grid[x][y])]]

sub_ok(self, other) ==
  /\ self.dim = other.dim
  /\ covers(self, self.dim) /\ covers(other, self.dim)
  /\ new_ok(sub_rows(self, other))

mul_rows(self, rhs) ==
  [x \in 1..self.dim[1] |->
     [y \in 1..self.dim[2] |-> FMul(self.grid[x][y], rhs)]]

mul_ok(self, rhs) == covers(self, self.dim) /\ new_ok(mul_rows(self, rhs))

div_rows(self, rhs) ==
  [x \in 1..self.dim[1] |->
     [y \in 1..self.dim[2] |-> FDiv(self.grid[x][y], rhs)]]

div_ok(self, rhs) == covers(self, self.dim) /\ new_ok(div_rows(self, rhs))

\* The product without its assert_eq!: zip cuts the longer operand short.
mul_vec_unchecked(self, rhs) == TRUE

mul_vec_ok(self, rhs) == self.dim[2] = Len(rhs)

\* zip stops at the shorter of the row and the vector.
mul_vec(self, rhs) ==
  [i \in 1..Len(self.grid) |->
     FSum([j \in 1..Min(Len(self.grid[i]), Len(rhs)) |->
             FMul(self.grid[i][j], rhs[j])])]

---------------------------------------------------------------------------
\* The calling program: MaxPool Matrix variables over a heap of grids

VARIABLES
  pool,   \* slot -> Matrix {matrix: Rc pointer, dim}; ptr 0: no value
  store,  \* Rc pointer -> the Vec<Vec<f64>> it owns
  last,   \* the last call: its arguments and its outcome
  nops    \* calls made

vars == <<pool, store, last, nops>>

NoMatrix == [ptr |-> 0, dim |-> <<0, 0>>]

NoCall ==
  [op |-> "none", ok |-> TRUE, a |-> 0, b |-> 0, out |-> 0,
   rows |-> <<>>, dim |-> <<0, 0>>, vec |-> <<>>, res |-> <<>>,
   x |-> 0, y |-> 0, rhs |-> Zero, val |-> Zero, eq |-> FALSE]

Init ==
  /\ pool = [s \in Slots |-> NoMatrix]
  /\ store = <<>>
  /\ last = NoCall
  /\ nops = 0

\* The Matrix a variable holds, with the grid its pointer leads to.
Mat(s) == [grid |-> store[pool[s].ptr], dim |-> pool[s].dim]

Held == {s \in Slots : pool[s] # NoMatrix}

HasFree == \E s \in Slots : pool[s] = NoMatrix

FreeSlot == CHOOSE s \in Slots : pool[s] = NoMatrix /\ \A t \in 1..(s - 1) : pool[t] # NoMatrix

\* The result written through a live Rc instead of into an allocation of
\* its own.
rc_alias ==
  IF DOMAIN store = {} THEN 1
  ELSE CHOOSE p \in DOMAIN store : \A q \in DOMAIN store : p <= q

\* Rc::new: an allocation of its own, at an address no live Rc has.
rc_new == CHOOSE p \in 1..(MaxPool + 1) : p \notin DOMAIN store /\ \A q \in 1..(p - 1) : q \in DOMAIN store

\* A panic ends the run.
Running == last.ok /\ nops < MaxOps

Panic(call) ==
  /\ last' = [call EXCEPT !.ok = FALSE]
  /\ nops' = nops + 1
  /\ UNCHANGED <<pool, store>>

\* The struct literal Matrix { matrix: Rc::new(grid), dim } bound to a variable.
Make(call, slot, grid, dim) ==
  LET p == rc_new
      refs == {pool[s].ptr : s \in Held \ {slot}}
      keep == (refs \cap DOMAIN store) \cup {p}
  IN /\ pool' = [pool EXCEPT ![slot] = [ptr |-> p, dim |-> dim]]
     /\ store' = [q \in keep |-> IF q = p THEN grid ELSE store[q]]
     /\ last' = [call EXCEPT !.out = slot]
     /\ nops' = nops + 1

\* A call that only reads.
Read(call) ==
  /\ last' = call
  /\ nops' = nops + 1
  /\ UNCHANGED <<pool, store>>

---------------------------------------------------------------------------
\* One action per public function

New(matrix) ==
  LET call == [NoCall EXCEPT !.op = "new", !.rows = matrix]
  IN /\ Running /\ HasFree
     /\ IF new_ok(matrix)
        THEN Make(call, FreeSlot, new_grid(matrix), new_dim(matrix))
        ELSE Panic(call)

RowVector(vector) ==
  /\ Running /\ HasFree
  /\ Make([NoCall EXCEPT !.op = "row_vector", !.vec = vector], FreeSlot,
          row_vector_grid(vector), row_vector_dim(vector))

ColumnVector(vector) ==
  /\ Running /\ HasFree
  /\ Make([NoCall EXCEPT !.op = "column_vector", !.vec = vector], FreeSlot,
          column_vector_grid(vector), column_vector_dim(vector))

Zeroes(height, width) ==
  /\ Running /\ HasFree
  /\ Make([NoCall EXCEPT !.op = "zeroes", !.x = height, !.y = width], FreeSlot,
          zeroes_grid(height, width), zeroes_dim(height, width))

Ones(height, width) ==
  /\ Running /\ HasFree
  /\ Make([NoCall EXCEPT !.op = "ones", !.x = height, !.y = width], FreeSlot,
          ones_grid(height, width), ones_dim(height, width))

Identity(size) ==
  /\ Running /\ HasFree
  /\ Make([NoCall EXCEPT !.op = "identity", !.x = size], FreeSlot,
          identity_grid(size), identity_dim(size))

\* #[derive(Clone)]: the Rc is cloned, so both values lead to one grid.
Clone(a) ==
  /\ Running /\ HasFree /\ a \in Held
  /\ pool' = [pool EXCEPT ![FreeSlot] = pool[a]]
  /\ last' = [NoCall EXCEPT !.op = "clone", !.a = a, !.out = FreeSlot]
  /\ nops' = nops + 1
  /\ UNCHANGED store

\* A variable goes out of scope; the grid is freed with its last Rc.
Drop(a) ==
  /\ Running /\ a \in Held
  /\ pool' = [pool EXCEPT ![a] = NoMatrix]
  /\ store' = [q \in {pool[s].ptr : s \in Held \ {a}} |-> store[q]]
  /\ last' = [NoCall EXCEPT !.op = "drop", !.a = a]
  /\ nops' = nops + 1

Row(a, x) ==
  LET call == [NoCall EXCEPT !.op = "row", !.a = a, !.x = x]
  IN /\ Running /\ a \in Held
     /\ IF row_ok(Mat(a), x)
        THEN Read([call EXCEPT !.res = row(Mat(a), x)])
        ELSE Panic(call)

Col(a, x) ==
  LET call == [NoCall EXCEPT !.op = "col", !.a = a, !.x = x]
  IN /\ Running /\ a \in Held
     /\ IF col_ok(Mat(a), x)
        THEN Read([call EXCEPT !.res = col(Mat(a), x)])
        ELSE Panic(call)

\* m[line][y]: Index for Matrix, then the Vec's own index.
Index(a, line, y) ==
  LET call == [NoCall EXCEPT !.op = "index", !.a = a, !.x = line, !.y = y]
  IN /\ Running /\ a \in Held
     /\ IF index_ok(Mat(a), line) /\ y < Len(index(Mat(a), line))
        THEN Read([call EXCEPT !.val = index(Mat(a), line)[y + 1]])
        ELSE Panic(call)

\* transpose(self) takes the Matrix by value: the variable is moved from.
\* The result is bound in its place.
Transpose(a) ==
  LET self == Mat(a)
      call == [NoCall EXCEPT !.op = "transpose", !.a = a, !.rows = self.grid,
                             !.dim = self.dim]
  IN /\ Running /\ a \in Held
     /\ IF transpose_ok(self)
        THEN Make(call, a, new_grid(transpose_rows(self)),
                  new_dim(transpose_rows(self)))
        ELSE Panic(call)

Eq(a, b) ==
  /\ Running /\ a \in Held /\ b \in Held
  /\ Read([NoCall EXCEPT !.op = "eq", !.a = a, !.b = b,
                         !.eq = eq(Mat(a), Mat(b))])

Add(a, b) ==
  LET call == [NoCall EXCEPT !.op = "add", !.a = a, !.b = b]
  IN /\ Running /\ HasFree /\ a \in Held /\ b \in Held
     /\ IF add_ok(Mat(a), Mat(b))
        THEN Make(call, FreeSlot, new_grid(add_rows(Mat(a), Mat(b))),
                  new_dim(add_rows(Mat(a), Mat(b))))
        ELSE Panic(call)

Sub(a, b) ==
  LET call == [NoCall EXCEPT !.op = "sub", !.a = a, !.b = b]
  IN /\ Running /\ HasFree /\ a \in Held /\ b \in Held
     /\ IF sub_ok(Mat(a), Mat(b))
        THEN Make(call, FreeSlot, new_grid(sub_rows(Mat(a), Mat(b))),
                  new_dim(sub_rows(Mat(a), Mat(b))))
        ELSE Panic(call)

Mul(a, rhs) ==
  LET call == [NoCall EXCEPT !.op = "mul", !.a = a, !.rhs = rhs]
  IN /\ Running /\ HasFree /\ a \in Held
     /\ IF mul_ok(Mat(a), rhs)
        THEN Make(call, FreeSlot, new_grid(mul_rows(Mat(a), rhs)),
                  new_dim(mul_rows(Mat(a), rhs)))
        ELSE Panic(call)

Div(a, rhs) ==
  LET call == [NoCall EXCEPT !.op = "div", !.a = a, !.rhs = rhs]
  IN /\ Running /\ HasFree /\ a \in Held
     /\ IF div_ok(Mat(a), rhs)
        THEN Make(call, FreeSlot, new_grid(div_rows(Mat(a), rhs)),
                  new_dim(div_rows(Mat(a), rhs)))
        ELSE Panic(call)

MulVec(a, rhs) ==
  LET call == [NoCall EXCEPT !.op = "mul_vec", !.a = a, !.vec = rhs]
  IN /\ Running /\ a \in Held
     /\ IF mul_vec_ok(Mat(a), rhs)
        THEN Read([call EXCEPT !.res = mul_vec(Mat(a), rhs)])
        ELSE Panic(call)

Next ==
  \/ \E matrix \in PoolRowLists : New(matrix)
  \/ \E vector \in PoolVecs : RowVector(vector)
  \/ \E vector \in PoolVecs : ColumnVector(vector)
  \/ \E height \in PoolSizes, width \in PoolSizes : Zeroes(height, width)
  \/ \E height \in PoolSizes, width \in PoolSizes : Ones(height, width)
  \/ \E size \in PoolSizes : Identity(size)
  \/ \E a \in Slots : Clone(a)
  \/ \E a \in Slots : Drop(a)
  \/ \E a \in Slots, x \in 0..(PoolDim + 1) : Row(a, x)
  \/ \E a \in Slots, x \in 0..(PoolDim + 1) : Col(a, x)
  \/ \E a \in Slots, x \in PoolSizes, y \in PoolSizes : Index(a, x, y)
  \/ \E a \in Slots : Transpose(a)
  \/ \E a \in Slots, b \in Slots : Eq(a, b)
  \/ \E a \in Slots, b \in Slots : Add(a, b)
  \/ \E a \in Slots, b \in Slots : Sub(a, b)
  \/ \E a \in Slots, rhs \in Scalars : Mul(a, rhs)
  \/ \E a \in Slots, rhs \in Scalars : Div(a, rhs)
  \/ \E a \in Slots, rhs \in PoolVecs : MulVec(a, rhs)

Spec == Init /\ [][Next]_vars

---------------------------------------------------------------------------
\* A single constructor call, then a single matrix-vector product

NextMulVec ==
  \/ nops = 0 /\ \E matrix \in RowLists : New(matrix)
  \/ nops = 0 /\ \E height \in Sizes, width \in Sizes : Zeroes(height, width)
  \/ nops = 1 /\ \E rhs \in Vecs : MulVec(1, rhs)

SpecMulVec == Init /\ [][NextMulVec]_vars

---------------------------------------------------------------------------
\* The vector functions of src/src/lib.rs

vector_dot_product(a, b) ==
  FSum([i \in 1..Min(Len(a), Len(b)) |-> FMul(a[i], b[i])])

\* vector_size(vector).powi(2): the square root of the sum of the squares,
\* squared.
vector_size_powi2(vector) ==
  FSum([i \in 1..Len(vector) |-> FMul(vector[i], vector[i])])

scalar_projection(a, b) == FDiv(vector_dot_product(a, b), vector_size_powi2(b))

orthogonal(a, b) == FEq(vector_dot_product(a, b), Zero)

\* all_orthogonal without its recursive call: only the first vector is
\* tested against the others.
all_orthogonal_first_only(vectors) ==
  IF Len(vectors) <= 1 THEN TRUE
  ELSE \A i \in 2..Len(vectors) : orthogonal(vectors[1], vectors[i])

RECURSIVE all_orthogonal(_)
all_orthogonal(vectors) ==
  IF Len(vectors) <= 1 THEN TRUE
  ELSE /\ \A i \in 2..Len(vectors) : orthogonal(vectors[1], vectors[i])
       /\ all_orthogonal(Tail(vectors))

change_base_ok(v, base) == all_orthogonal(base)

change_base(v, base) == [k \in 1..Len(base) |-> scalar_projection(v, base[k])]

AllOrthogonal(vectors) ==
  /\ Running
  /\ Read([NoCall EXCEPT !.op = "all_orthogonal", !.rows = vectors,
                         !.eq = all_orthogonal(vectors)])

ChangeBase(v, base) ==
  LET call == [NoCall EXCEPT !.op = "change_base", !.vec = v, !.rows = base]
  IN /\ Running
     /\ IF change_base_ok(v, base)
        THEN Read([call EXCEPT !.res = change_base(v, base)])
        ELSE Panic(call)

NextVec ==
  \/ nops = 0 /\ \E vectors \in VecLists : AllOrthogonal(vectors)
  \/ nops = 0 /\ \E v \in BaseVecs, base \in Bases : ChangeBase(v, base)

SpecVec == Init /\ [][NextVec]_vars

---------------------------------------------------------------------------
\* The properties

ElemEq(g1, g2, h, w) ==
  \A i \in 1..h : \A j \in 1..w : FEq(g1[i][j], g2[i][j])

\* C1: Matrix::new on a non-empty list of rows panics if and only if some
\* row's length differs from the first row's; when it returns, the matrix has
\* dimensions (number of rows, length of the first row) and its grid is the
\* list of rows it was given.
C1_NewRagged ==
  (last.op = "new" /\ Len(last.rows) > 0) =>
    /\ (~last.ok) <=>
         (\E i \in 1..Len(last.rows) : Len(last.rows[i]) # Len(last.rows[1]))
    /\ last.ok =>
         /\ pool[last.out].dim = <<Len(last.rows), Len(last.rows[1])>>
         /\ store[pool[last.out].ptr] = last.rows

\* C1's case: a two-row list whose second row is shorter has been refused.
C1_Witness ==
  /\ last.op = "new" /\ ~last.ok
  /\ Len(last.rows) = 2 /\ Len(last.rows[1]) = 2 /\ Len(last.rows[2]) = 1

\* C2: every Matrix a program can hold has height >= 1 and width >= 1.
C2_PositiveDims ==
  \A s \in Held : pool[s].dim[1] >= 1 /\ pool[s].dim[2] >= 1

C4_EqIffSameDimsAndElems ==
  last.op = "eq" =>
    (last.eq <=>
       /\ pool[last.a].dim = pool[last.b].dim
       /\ ElemEq(Mat(last.a).grid, Mat(last.b).grid,
                 pool[last.a].dim[1], pool[last.a].dim[2]))

\* C5: A + B and A - B panic if the dimensions differ, and otherwise return
\* a matrix of the operands' dimensions whose element (i, j) is
\* A[i][j] + B[i][j] (A[i][j] - B[i][j]).
C5_AddSub ==
  last.op \in {"add", "sub"} =>
    LET A == Mat(last.a)
        B == Mat(last.b)
    IN IF A.dim # B.dim THEN ~last.ok
       ELSE /\ last.ok
            /\ pool[last.out].dim = A.dim
            /\ \A i \in 1..A.dim[1] : \A j \in 1..A.dim[2] :
                 Mat(last.out).grid[i][j] =
                   IF last.op = "add" THEN FAdd(A.grid[i][j], B.grid[i][j])
                   ELSE FSub(A.grid[i][j], B.grid[i][j])

\* C7: transpose panics for every non-square matrix, and for every square
\* matrix M it returns T of the same dimensions with T[i][j] = M[j][i].
C7_Transpose ==
  last.op = "transpose" =>
    IF last.dim[1] # last.dim[2] THEN ~last.ok
    ELSE /\ last.ok
         /\ pool[last.out].dim = last.dim
         /\ \A i \in 1..last.dim[1] : \A j \in 1..last.dim[2] :
              Mat(last.out).grid[i][j] = last.rows[j][i]

\* C8: row(i) returns row i when i < h and panics when i >= h; col(j)
\* returns (M[0][j], ..., M[h-1][j]) when j < w and panics when j >= w.
C8_RowColBounds ==
  /\ last.op = "row" =>
       IF last.x < pool[last.a].dim[1]
       THEN last.ok /\ last.res = Mat(last.a).grid[last.x + 1]
       ELSE ~last.ok
  /\ last.op = "col" =>
       IF last.x < pool[last.a].dim[2]
       THEN /\ last.ok
            /\ last.res = [r \in 1..pool[last.a].dim[1] |->
                             Mat(last.a).grid[r][last.x + 1]]
       ELSE ~last.ok

\* C6: M * v panics if and only if M's width differs from v's length;
\* otherwise the result has M's height for its length and its i-th entry is
\* the sum over j of M[i][j] * v[j].
C6_MulVec ==
  last.op = "mul_vec" =>
    LET M == Mat(last.a)
    IN /\ (~last.ok) <=> (M.dim[2] # Len(last.vec))
       /\ last.ok =>
            /\ Len(last.res) = M.dim[1]
            /\ \A i \in 1..M.dim[1] :
                 last.res[i] =
                   FSum([j \in 1..M.dim[2] |-> FMul(M.grid[i][j], last.vec[j])])

\* C6's case: the 2x2 matrix [[1, 1], [0, -1]] times (1, 1) is (2, -1).
C6_Witness ==
  /\ last.op = "mul_vec" /\ last.ok
  /\ pool[last.a].dim = <<2, 2>>
  /\ Mat(last.a).grid = <<<<One, One>>, <<Zero, FNeg(One)>>>>
  /\ last.res = <<Two, FNeg(One)>>

FrameOps ==
  {"add", "sub", "mul", "div", "mul_vec", "row", "col", "index", "eq", "clone"}

\* C9: add, sub, scalar mul and div, matrix-vector mul, row, col, indexing,
\* equality and clone leave every Matrix the program holds, and the grid it
\* leads to, as they were; the Matrix an arithmetic operator returns leads
\* to a grid no Matrix held before the call leads to.
C9_Immutable ==
  [][last'.op \in FrameOps =>
       /\ \A s \in Held :
            /\ pool'[s] = pool[s]
            /\ store'[pool[s].ptr] = store[pool[s].ptr]
       /\ (last'.ok /\ last'.op \in {"add", "sub", "mul", "div"}) =>
            pool'[last'.out].ptr \notin {pool[s].ptr : s \in Held}]_vars

\* C9's case: a Matrix and its clone lead to one grid, and the product of
\* the Matrix by a scalar is a third value with another grid.
C9_Witness ==
  /\ last.op = "mul" /\ last.ok
  /\ \E t \in Held \ {last.a} : pool[t].ptr = pool[last.a].ptr
  /\ pool[last.out].ptr # pool[last.a].ptr
  /\ pool[last.a].dim = <<1, 1>>
  /\ Mat(last.out).grid # Mat(last.a).grid

PairwiseOrthogonal(vectors) ==
  \A i \in 1..Len(vectors) : \A j \in 1..Len(vectors) :
    i # j => FEq(vector_dot_product(vectors[i], vectors[j]), Zero)

\* C10: all_orthogonal(vectors) is true if and only if every two vectors at
\* distinct positions have dot product exactly 0; change_base(v, base) panics
\* exactly when that fails of base, and otherwise returns one entry per
\* vector of base, the k-th being scalar_projection(v, base[k]).
C10_OrthogonalBase ==
  /\ last.op = "all_orthogonal" => (last.eq <=> PairwiseOrthogonal(last.rows))
  /\ last.op = "change_base" =>
       /\ (~last.ok) <=> ~PairwiseOrthogonal(last.rows)
       /\ last.ok =>
            /\ Len(last.res) = Len(last.rows)
            /\ \A k \in 1..Len(last.rows) :
                 last.res[k] = scalar_projection(last.vec, last.rows[k])

\* C10's case: (1, 0) in the orthogonal base ((1, 1), (0, 0)) is (1/2, NaN).
C10_Witness ==
  /\ last.op = "change_base" /\ last.ok
  /\ last.vec = <<One, Zero>>
  /\ last.rows = <<<<One, One>>, <<Zero, Zero>>>>
  /\ last.res = <<<<1, 2>>, NaN>>

=============================================================================
